---- MODULE Spec2Model ----
(***************************************************************************)
(* Model of the layout pipeline of ass-stroke (crates/ass-stroke/src/      *)
(* lib.rs): parse distributes annotations over Text lines, process runs    *)
(* the passes cleanup, inline formatting, gap insertion, buffer expansion, *)
(* connector drawing, line numbers, flattening to Raw and final cleanup.   *)
(*                                                                         *)
(* A styled buffer (Text / SegmentBuffer) is a sequence of cells           *)
(* [ch, fmt]; a Line is a record with a kind field, the fields a variant   *)
(* does not have are left empty.  Line and column indices are 0-based as   *)
(* in the source; TLA+ sequences are 1-based, so lines[i + 1] is line i.   *)
(***************************************************************************)
EXTENDS Integers, Sequences, FiniteSets, TLC

VARIABLES
    txt,          \* the text given to parse: a sequence of characters
    annotations,  \* the annotation list given to parse
    lines,        \* Source.lines
    prev,         \* Source.lines at the entry of the pass that ran last
    order,        \* enumeration order of connected_annotations (HashMap::iter)
    pc            \* position in parse / process

vars == <<txt, annotations, lines, prev, order, pc>>

----------------------------------------------------------------------------
(* Bounds of the model *)

\* longest text, in lines, that the general specifications feed to parse
MaxLines == 3

\* longest text, in lines, of the specification of the long texts
MaxLongLines == 7

\* number of lines of the ten-line scenario's text
ScenarioLines == 10

\* Option<AnnotationId>::None
NoneId == 0

\* the contents a line of the text may have: no indentation, an indentation
\* of three columns, and the empty line
LineShapes == { <<"x">>, <<" ", " ", " ", "x">>, <<>> }

\* the contents of the lines that are not empty
FilledShapes == { <<"x">>, <<" ", " ", " ", "x">> }

\* the line of the long texts that is not empty
LongLine == <<" ", " ", " ", "x">>

----------------------------------------------------------------------------
(* Generic helpers *)

Max(S) == CHOOSE x \in S : \A y \in S : y <= x

Min(S) == CHOOSE x \in S : \A y \in S : x <= y

Range(f) == {f[i] : i \in DOMAIN f}

RECURSIVE Concat(_)
Concat(ss) == IF ss = <<>> THEN <<>> ELSE Head(ss) \o Concat(Tail(ss))

Reverse(s) == [i \in 1..Len(s) |-> s[Len(s) + 1 - i]]

\* Vec::insert(i, x), i 0-based
InsertAt(s, i, x) == SubSeq(s, 1, i) \o <<x>> \o SubSeq(s, i + 1, Len(s))

\* all orderings of a finite set, as sequences
RECURSIVE Orderings(_)
Orderings(S) ==
    IF S = {} THEN {<<>>}
    ELSE UNION {{<<x>> \o o : o \in Orderings(S \ {x})} : x \in S}

----------------------------------------------------------------------------
(* Formatting and styled buffers *)

DefaultFmt == [color |-> 0, decoration |-> FALSE, line_number |-> FALSE]

\* Annotation.formatting of the annotation with the given id
ColorFmt(id) == [color |-> id, decoration |-> FALSE, line_number |-> FALSE]

Decoration(fmt) == [fmt EXCEPT !.decoration = TRUE]

LineNumberFmt == [color |-> 0, decoration |-> FALSE, line_number |-> TRUE]

Cell(ch, fmt) == [ch |-> ch, fmt |-> fmt]

\* Segment::new(chars, fmt)
Segment(chars, fmt) == [i \in 1..Len(chars) |-> Cell(chars[i], fmt)]

Spaces(n) == [i \in 1..n |-> " "]

is_whitespace(ch) == ch = " "

\* text.data().all(|c| c.is_whitespace())
AllWhitespace(text) == \A i \in 1..Len(text) : is_whitespace(text[i].ch)

\* text.data().take_while(|c| c.is_whitespace()).count()
LeadingWhitespace(text) ==
    IF AllWhitespace(text) THEN Len(text)
    ELSE Min({i \in 1..Len(text) : ~is_whitespace(text[i].ch)}) - 1

\* text.splice(0..0, Some(seg))
SplicePrefix(text, seg) == seg \o text

\* text.resize(n, ' ', fmt): grows the buffer to n cells
Resize(text, n, fmt) ==
    IF Len(text) >= n THEN text ELSE text \o Segment(Spaces(n - Len(text)), fmt)

\* text.splice(i..=i, Some(<<cell>>)), i 0-based
SpliceAt(text, i, cell) == [text EXCEPT ![i + 1] = cell]

----------------------------------------------------------------------------
(* Lines *)

TextLine(num, line, anns, bufs) ==
    [kind |-> "Text", prefix |-> <<>>, line_num |-> num, line |-> line,
     annotations |-> anns, annotation_buffers |-> bufs, annotation |-> NoneId]

AnnotationLine(line, id) ==
    [kind |-> "Annotation", prefix |-> <<>>, line_num |-> 0, line |-> line,
     annotations |-> <<>>, annotation_buffers |-> <<>>, annotation |-> id]

GapLine ==
    [kind |-> "Gap", prefix |-> <<>>, line_num |-> 0, line |-> <<>>,
     annotations |-> <<>>, annotation_buffers |-> <<>>, annotation |-> NoneId]

\* RawLine: data is kept in the line field
RawLine(data) ==
    [kind |-> "Raw", prefix |-> <<>>, line_num |-> 0, line |-> data,
     annotations |-> <<>>, annotation_buffers |-> <<>>, annotation |-> NoneId]

Nop ==
    [kind |-> "Nop", prefix |-> <<>>, line_num |-> 0, line |-> <<>>,
     annotations |-> <<>>, annotation_buffers |-> <<>>, annotation |-> NoneId]

is_text(l) == l.kind = "Text"
is_annotation(l) == l.kind = "Annotation"
is_gap(l) == l.kind = "Gap"
is_nop(l) == l.kind = "Nop"
is_raw(l) == l.kind = "Raw"

\* TextLine::is_empty
is_empty(l) == Len(l.line) = 0

\* the predicate of the connector and line-number passes
is_shown(l) == is_annotation(l) \/ is_text(l) \/ is_gap(l)

----------------------------------------------------------------------------
(* cons_slices: the maximal runs of lines satisfying a test, as pairs      *)
(* <<first, last>> of 1-based positions                                    *)

TextRuns(ls) ==
    {<<a, b>> \in (1..Len(ls)) \X (1..Len(ls)) :
        /\ a <= b
        /\ \A i \in a..b : is_text(ls[i])
        /\ (a = 1 \/ ~is_text(ls[a - 1]))
        /\ (b = Len(ls) \/ ~is_text(ls[b + 1]))}

GapRuns(ls) ==
    {<<a, b>> \in (1..Len(ls)) \X (1..Len(ls)) :
        /\ a <= b
        /\ \A i \in a..b : is_gap(ls[i])
        /\ (a = 1 \/ ~is_gap(ls[a - 1]))
        /\ (b = Len(ls) \/ ~is_gap(ls[b + 1]))}

ShownRuns(ls) ==
    {<<a, b>> \in (1..Len(ls)) \X (1..Len(ls)) :
        /\ a <= b
        /\ \A i \in a..b : is_shown(ls[i])
        /\ (a = 1 \/ ~is_shown(ls[a - 1]))
        /\ (b = Len(ls) \/ ~is_shown(ls[b + 1]))}

\* the run of the set that holds position i, <<0, 0>> if none does
RunOf(runs, i) ==
    IF \E r \in runs : r[1] <= i /\ i <= r[2]
    THEN CHOOSE r \in runs : r[1] <= i /\ i <= r[2]
    ELSE <<0, 0>>

----------------------------------------------------------------------------
(* cleanup *)

cleanup_nops(ls) == SelectSeq(ls, LAMBDA l : ~is_nop(l))

\* the positions of a Text run that iter_mut().take_while(is_empty) visits
LeadingEmpty(ls, r) ==
    {i \in r[1]..r[2] : \A j \in r[1]..i : is_empty(ls[j])}

\* the positions that iter_mut().rev().take_while(is_empty) visits
TrailingEmpty(ls, r) ==
    {i \in r[1]..r[2] : \A j \in i..r[2] : is_empty(ls[j])}

\* a Text run of empty lines only: the first loop turns all of it into Nop
\* and as_text().unwrap() of the second loop fails on the last of them
CleanupPanics(ls) ==
    \E r \in TextRuns(ls) : \A i \in r[1]..r[2] : is_empty(ls[i])

NopEmptyEnds(ls) ==
    [i \in 1..Len(ls) |->
        IF \E r \in TextRuns(ls) :
              i \in LeadingEmpty(ls, r) \cup TrailingEmpty(ls, r)
        THEN Nop ELSE ls[i]]

\* a cleanup that keeps the first two lines of a run of Gap lines
NopExtraGapsSkipTwo(ls) ==
    [i \in 1..Len(ls) |->
        IF \E r \in GapRuns(ls) : r[1] + 1 < i /\ i <= r[2] THEN Nop ELSE ls[i]]

\* of every run of Gap lines all but the first become Nop
NopExtraGaps(ls) ==
    [i \in 1..Len(ls) |->
        IF \E r \in GapRuns(ls) : r[1] < i /\ i <= r[2] THEN Nop ELSE ls[i]]

cleanup(ls) == cleanup_nops(NopExtraGaps(cleanup_nops(NopEmptyEnds(ls))))

----------------------------------------------------------------------------
(* parse: line starts, line/column resolution, distribution *)

\* the 0-based offsets that follow a line break
linestarts(str) == {i \in 1..Len(str) : str[i] = "\n"}

offset_to_linecol(offset, starts) ==
    LET upto == {s \in starts : s <= offset}
    IN  [line   |-> Cardinality(upto),
         column |-> offset - (IF upto = {} THEN 0 ELSE Max(upto))]

\* txt.split('\n')
RECURSIVE SplitLines(_)
SplitLines(str) ==
    IF \A i \in 1..Len(str) : str[i] # "\n" THEN <<str>>
    ELSE LET k == Min({i \in 1..Len(str) : str[i] = "\n"})
         IN  <<SubSeq(str, 1, k - 1)>> \o SplitLines(SubSeq(str, k + 1, Len(str)))

\* the Text lines parse starts from: one placeholder cell is appended to
\* every line for the spans that point to the end of the line
InitialLines(str) ==
    LET ss == SplitLines(str)
    IN  [k \in 1..Len(ss) |->
            TextLine(k, Segment(ss[k] \o <<" ">>, DefaultFmt), <<>>, <<>>)]

\* the entries one range adds to line_ranges, as <<line, <<from, to>>>>
RangePieces(range, ls, starts) ==
    LET start == offset_to_linecol(range[1], starts)
        end   == offset_to_linecol(range[2], starts)
    IN  IF start.line = end.line
        THEN {<<start.line, <<start.column, end.column>>>>}
        ELSE {<<start.line, <<start.column, Len(ls[start.line + 1].line) - 1>>>>,
              <<end.line, <<0, end.column>>>>}

\* lines[start.line] of the cross-line branch is out of bounds
RangeOob(range, ls, starts) ==
    LET start == offset_to_linecol(range[1], starts)
        end   == offset_to_linecol(range[2], starts)
    IN  start.line # end.line /\ start.line >= Len(ls)

\* line_ranges of one annotation: line -> set of column ranges
LineRanges(ann, ls, starts) ==
    LET pieces == UNION {RangePieces(r, ls, starts) : r \in ann.ranges}
    IN  [l \in {p[1] : p \in pieces} |-> {p[2] : p \in {q \in pieces : q[1] = l}}]

LineAnnotation(ann, lr, l) ==
    [id     |-> ann.id,
     ranges |-> lr[l],
     left   |-> Cardinality(DOMAIN lr) > 1,
     right  |-> IF l = Max(DOMAIN lr) THEN ann.text ELSE <<>>]

\* parse fails: an index into the line vector is out of bounds
ParseAborts(str, anns) ==
    LET ls     == InitialLines(str)
        starts == linestarts(str)
    IN  \E j \in 1..Len(anns) :
           \/ \E r \in anns[j].ranges : RangeOob(r, ls, starts)
           \/ /\ \A r \in anns[j].ranges : ~RangeOob(r, ls, starts)
              /\ \E l \in DOMAIN LineRanges(anns[j], ls, starts) : l >= Len(ls)

\* the lines handed to process: every touched line gets one LineAnnotation
\* per annotation, in the order of the annotation list
Distribute(str, anns) ==
    LET ls     == InitialLines(str)
        starts == linestarts(str)
    IN  [k \in 1..Len(ls) |->
            [ls[k] EXCEPT !.annotations =
                Concat([j \in 1..Len(anns) |->
                    LET lr == LineRanges(anns[j], ls, starts)
                    IN  IF (k - 1) \in DOMAIN lr
                        THEN <<LineAnnotation(anns[j], lr, k - 1)>>
                        ELSE <<>>])]]

----------------------------------------------------------------------------
(* The inputs *)

\* the texts of n lines
RECURSIVE JoinLines(_)
JoinLines(ss) ==
    IF Len(ss) = 1 THEN ss[1] ELSE ss[1] \o <<"\n">> \o JoinLines(Tail(ss))

\* the texts of up to n lines with the given line contents
Texts(shapes, n) == {JoinLines(ss) : ss \in UNION {[1..k -> shapes] : k \in 1..n}}

\* the long texts of up to n lines: indented lines, at most one of them empty
LongTexts(n) ==
    {JoinLines([i \in 1..k |-> IF i = b THEN <<>> ELSE LongLine]) :
        k \in 1..n, b \in 0..n}

\* offset of the first character of line k (0-based) that is not a blank,
\* of the line's end if there is none
ContentStart(str, k) ==
    LET ss == SplitLines(str)
        at == IF k = 0 THEN 0 ELSE Max({s \in linestarts(str) :
                  Cardinality({u \in linestarts(str) : u <= s}) = k})
    IN  at + LeadingWhitespace(Segment(ss[k + 1], DefaultFmt))

\* offset of the last character of line k, of the line's end if it is empty
ContentEnd(str, k) ==
    LET ss == SplitLines(str)
        at == IF k = 0 THEN 0 ELSE Max({s \in linestarts(str) :
                  Cardinality({u \in linestarts(str) : u <= s}) = k})
    IN  at + (IF Len(ss[k + 1]) = 0 THEN 0 ELSE Len(ss[k + 1]) - 1)

\* ranges inside the text: from the content of a line to the end of a line
InnerRanges(str) ==
    LET n == Len(SplitLines(str))
    IN  {<<ContentStart(str, a), ContentEnd(str, b)>> :
            a \in 0..(n - 1), b \in 0..(n - 1)} \cap
        {r \in (0..Len(str)) \X (0..Len(str)) : r[1] <= r[2]}

\* ranges that start or end behind the end of the text
OuterRanges(str) ==
    LET n == Len(SplitLines(str))
    IN  {<<ContentStart(str, a), Len(str) + 4>> : a \in 0..(n - 1)} \cup
        {<<Len(str) + 2, Len(str) + 4>>}

\* range sets of one range
SingleRanges(ranges) == {{r} : r \in ranges}

\* range sets of one or two ranges that neither overlap nor touch
RangeSets(ranges) ==
    SingleRanges(ranges) \cup
    UNION {{{r, q} : q \in {u \in ranges : r[2] + 1 < u[1]}} : r \in ranges}

Labels == {<<>>, Segment(<<"m">>, DefaultFmt)}

Annotation(id, ranges, text) == [id |-> id, ranges |-> ranges, text |-> text]

\* the annotation lists of at most one annotation, with the id 1
UpToOne(rangesets) ==
    {<<>>} \cup {<<Annotation(1, rs, t)>> : rs \in rangesets, t \in Labels}

\* the annotation lists of two annotations, with the ids 1 and 2
Two(first, second) ==
    {<<Annotation(1, rs, t), Annotation(2, qs, u)>> :
        rs \in first, t \in Labels, qs \in second, u \in Labels}

\* the inputs with the given text
InputsOf(str, lists) == {<<str, as>> : as \in lists}

----------------------------------------------------------------------------
(* Format inline annotations *)

\* last column of the ranges of a line annotation
LastColumn(la) == Max({r[2] : r \in la.ranges})

Covers(la, col) == \E r \in la.ranges : r[1] <= col /\ col <= r[2]

\* single_line::generate_segment: the content restyled where an annotation
\* covers it, and one buffer per annotation that spans several lines or has
\* a label; an annotation inside one line with no label gives no buffer.
\* A buffer is the marker under the last annotated column, then the label;
\* it is tagged with the id when the annotation spans several lines.
generate_segment(anns, line) ==
    [replace |->
        [k \in 1..Len(line) |->
            IF \E j \in 1..Len(anns) : Covers(anns[j], k - 1)
            THEN Cell(line[k].ch,
                      ColorFmt(anns[Min({j \in 1..Len(anns) : Covers(anns[j], k - 1)})].id))
            ELSE line[k]],
     extra |->
        Concat([j \in 1..Len(anns) |->
            IF anns[j].left \/ anns[j].right # <<>>
            THEN <<[id   |-> IF anns[j].left THEN anns[j].id ELSE NoneId,
                    text |-> Segment(Spaces(LastColumn(anns[j])), DefaultFmt)
                             \o <<Cell("^", Decoration(ColorFmt(anns[j].id)))>>
                             \o anns[j].right]>>
            ELSE <<>>])]

FormatInline(ls) ==
    [i \in 1..Len(ls) |->
        IF is_text(ls[i]) /\ ls[i].annotations # <<>>
        THEN LET g == generate_segment(ls[i].annotations, ls[i].line)
             IN  [ls[i] EXCEPT !.line = g.replace,
                               !.annotation_buffers = g.extra,
                               !.annotations = <<>>]
        ELSE ls[i]]

----------------------------------------------------------------------------
(* Make gaps in files *)

\* a window of one line before and one line after
WindowHasBufferNarrow(slice, i) ==
    \E j \in (IF i < 1 THEN 0 ELSE i - 1)..(i + 1) :
        /\ j < Len(slice)
        /\ is_text(slice[j + 1])
        /\ slice[j + 1].annotation_buffers # <<>>

\* some line of the window i-2 .. i+2 of the slice is a Text line with a
\* pending buffer (i 0-based; slice.get(j) is None outside the slice)
WindowHasBuffer(slice, i) ==
    \E j \in (IF i < 2 THEN 0 ELSE i - 2)..(i + 2) :
        /\ j < Len(slice)
        /\ is_text(slice[j + 1])
        /\ slice[j + 1].annotation_buffers # <<>>

\* one iteration of the loop 'line: the slice is changed in place
GapStep(slice, i) ==
    IF WindowHasBuffer(slice, i) THEN slice ELSE [slice EXCEPT ![i + 1] = GapLine]

RECURSIVE GapScan(_, _)
GapScan(slice, i) ==
    IF i >= Len(slice) THEN slice ELSE GapScan(GapStep(slice, i), i + 1)

MakeGaps(ls) ==
    [i \in 1..Len(ls) |->
        LET r == RunOf(TextRuns(ls), i)
        IN  IF r = <<0, 0>> THEN ls[i]
            ELSE GapScan(SubSeq(ls, r[1], r[2]), 0)[i - r[1] + 1]]

----------------------------------------------------------------------------
(* Expand annotation buffers *)

\* the pairs (i + 1, buf) in the order the loop pushes them
Insertions(ls) ==
    Concat([i \in 1..Len(ls) |->
        IF is_text(ls[i])
        THEN [k \in 1..Len(ls[i].annotation_buffers) |->
                 <<i, ls[i].annotation_buffers[k]>>]
        ELSE <<>>])

\* annotation_buffers.drain(..)
Drained(ls) ==
    [i \in 1..Len(ls) |->
        IF is_text(ls[i]) THEN [ls[i] EXCEPT !.annotation_buffers = <<>>] ELSE ls[i]]

RECURSIVE ApplyInsertions(_, _)
ApplyInsertions(ls, ins) ==
    IF ins = <<>> THEN ls
    ELSE ApplyInsertions(
             InsertAt(ls, ins[1][1], AnnotationLine(ins[1][2].text, ins[1][2].id)),
             Tail(ins))

\* an expansion that applies the insertions lowest index first
ExpandBuffersForward(ls) == ApplyInsertions(Drained(ls), Insertions(ls))

ExpandBuffers(ls) == ApplyInsertions(Drained(ls), Reverse(Insertions(ls)))

----------------------------------------------------------------------------
(* Connect annotation lines *)

\* chars::line: the connector glyphs
RANGE_EMPTY == "range_empty"
RANGE_START == "range_start"
RANGE_END == "range_end"
RANGE_CONNECTION == "range_connection"
RANGE_CONTINUE == "range_continue"

\* the glyph that replaces a bar crossed by the connection of another annotation
CROSSING == "crossing"

\* chars::line::cross: Option<(keep_style, replacement)>; a bar that runs
\* through the line is replaced by the crossing glyph and keeps its style
cross(ch) ==
    IF ch = RANGE_CONTINUE
    THEN [some |-> TRUE, keep_style |-> TRUE, replacement |-> CROSSING]
    ELSE [some |-> FALSE, keep_style |-> FALSE, replacement |-> ch]

\* annotation_formats.get(&annotation).clone().decoration()
AnnotationFmt(id) == Decoration(ColorFmt(id))

\* the ids of the Annotation lines of a run
ConnectedIds(rl) ==
    {rl[i].annotation : i \in {k \in 1..Len(rl) :
        is_annotation(rl[k]) /\ rl[k].annotation # NoneId}}

\* connected_annotations[id]: the lines of the run (0-based) that are
\* Annotation lines of the id, and the range from the first to the last
Connection(rl, id) ==
    LET at == {i - 1 : i \in {k \in 1..Len(rl) :
                  is_annotation(rl[k]) /\ rl[k].annotation = id}}
    IN  [start |-> Min(at), end |-> Max(at), connected |-> at]

\* RangeSet::num_elements of the set that holds the one range of a connection
NumElements(conn) == conn.end - conn.start + 1

\* sort_by_key(|a| a.1.num_elements()): stable, ascending
RECURSIVE StableSortBySize(_, _)
StableSortBySize(ids, rl) ==
    IF ids = <<>> THEN <<>>
    ELSE LET size(id) == NumElements(Connection(rl, id))
             least    == Min({size(ids[i]) : i \in 1..Len(ids)})
         IN  SelectSeq(ids, LAMBDA id : size(id) = least)
             \o StableSortBySize(SelectSeq(ids, LAMBDA id : size(id) # least), rl)

Conflicts(a, b) == a.start <= b.end /\ b.start <= a.end

\* single_line::group_nonconflicting: every id, in the order given, joins
\* the first group none of whose members occupies a line of its range, and
\* opens a new group if there is none
RECURSIVE group_nonconflicting(_, _, _)
group_nonconflicting(ids, rl, groups) ==
    IF ids = <<>> THEN groups
    ELSE LET id  == Head(ids)
             fit == {g \in 1..Len(groups) :
                        \A m \in Range(groups[g]) :
                            ~Conflicts(Connection(rl, id), Connection(rl, m))}
         IN  group_nonconflicting(Tail(ids), rl,
                 IF fit = {} THEN Append(groups, <<id>>)
                 ELSE [groups EXCEPT ![Min(fit)] = Append(@, id)])

\* the leading blanks of the lines of the range that are not blank
RangeWidths(rl, conn) ==
    {LeadingWhitespace(rl[l + 1].line) :
        l \in {k \in conn.start..conn.end :
                  ~is_gap(rl[k + 1]) /\ ~AllWhitespace(rl[k + 1].line)}}

\* max_index stays usize::MAX when every line of the range is blank
NoMaxIndex(rl, conn) == RangeWidths(rl, conn) = {}

\* a padding of the lines of the range of the annotation only
PaddedRangeOnly(rl, id, max_index) ==
    IF max_index < 2
    THEN [i \in 1..Len(rl) |->
             IF Connection(rl, id).start <= i - 1 /\ i - 1 <= Connection(rl, id).end
             THEN [rl[i] EXCEPT !.line =
                      SplicePrefix(@, Segment(Spaces(2 - max_index), AnnotationFmt(id)))]
             ELSE rl[i]]
    ELSE rl

\* the run after the while loop: every line padded until max_index is 2
Padded(rl, id, max_index) ==
    IF max_index < 2
    THEN [i \in 1..Len(rl) |->
             [rl[i] EXCEPT !.line =
                 SplicePrefix(@, Segment(Spaces(2 - max_index), AnnotationFmt(id)))]]
    ELSE rl

Glyph(conn, line) ==
    IF conn.start = conn.end THEN RANGE_EMPTY
    ELSE IF line = conn.start THEN RANGE_START
    ELSE IF line = conn.end THEN RANGE_END
    ELSE IF line \in conn.connected THEN RANGE_CONNECTION
    ELSE RANGE_CONTINUE

\* the loop over offset + 1 .. text.len() of a connected line
RECURSIVE CrossScan(_, _, _)
CrossScan(text, i, fmt) ==
    IF i >= Len(text) THEN text
    ELSE LET c == text[i + 1]
         IN  IF ~is_whitespace(c.ch) /\ ~c.fmt.decoration THEN text
             ELSE IF cross(c.ch).some
             THEN CrossScan(
                      SpliceAt(text, i,
                          Cell(cross(c.ch).replacement,
                               IF cross(c.ch).keep_style THEN c.fmt ELSE fmt)),
                      i + 1, fmt)
             ELSE CrossScan(text, i + 1, fmt)

DrawLine(text, ch, offset, fmt, connected) ==
    LET grown == IF Len(text) <= offset THEN Resize(text, offset + 1, fmt) ELSE text
        drawn == SpliceAt(grown, offset, Cell(ch, fmt))
    IN  IF connected THEN CrossScan(drawn, offset + 1, fmt) ELSE drawn

\* an offset of max_index - 1
DrawOffsetNear(rl, conn) ==
    LET least == Min(RangeWidths(rl, conn))
    IN  IF least < 2 THEN 0 ELSE least - 1

\* the column the glyphs of a connection are drawn at: max_index - 2
DrawOffset(rl, conn) ==
    LET least == Min(RangeWidths(rl, conn))
    IN  IF least < 2 THEN 0 ELSE least - 2

\* the body of the loop over the annotations of a group
DrawAnnotation(rl, id) ==
    LET conn   == Connection(rl, id)
        padded == Padded(rl, id, Min(RangeWidths(rl, conn)))
        offset == DrawOffset(rl, conn)
    IN  [i \in 1..Len(rl) |->
            IF conn.start <= i - 1 /\ i - 1 <= conn.end
            THEN [padded[i] EXCEPT !.line =
                     DrawLine(@, Glyph(conn, i - 1), offset, AnnotationFmt(id),
                              (i - 1) \in conn.connected)]
            ELSE padded[i]]

\* st.ok is FALSE once an annotation had no max_index: text.resize to
\* usize::MAX - 1 cells fails
RECURSIVE DrawAll(_, _)
DrawAll(st, ids) ==
    IF ids = <<>> \/ ~st.ok THEN st
    ELSE IF NoMaxIndex(st.ls, Connection(st.ls, Head(ids)))
    THEN [ls |-> st.ls, ok |-> FALSE]
    ELSE DrawAll([ls |-> DrawAnnotation(st.ls, Head(ids)), ok |-> TRUE], Tail(ids))

\* the order the annotations of a run are drawn in: the enumeration of the
\* map, sorted by range size, grouped, groups and their members in sequence
DrawOrder(rl, enum) ==
    LET mine   == SelectSeq(enum, LAMBDA id : id \in ConnectedIds(rl))
        sorted == StableSortBySize(mine, rl)
    IN  Concat(group_nonconflicting(sorted, rl, <<>>))

ConnectRun(rl, enum) == DrawAll([ls |-> rl, ok |-> TRUE], DrawOrder(rl, enum))

RECURSIVE ConnectFrom(_, _, _)
ConnectFrom(st, k, enum) ==
    LET runs == {r \in ShownRuns(st.ls) : r[1] > k}
    IN  IF runs = {} THEN st
        ELSE LET r   == CHOOSE r \in runs : \A q \in runs : r[1] <= q[1]
                 res == ConnectRun(SubSeq(st.ls, r[1], r[2]), enum)
             IN  ConnectFrom(
                     [ls |-> SubSeq(st.ls, 1, r[1] - 1) \o res.ls
                             \o SubSeq(st.ls, r[2] + 1, Len(st.ls)),
                      ok |-> st.ok /\ res.ok],
                     r[2], enum)

ConnectLines(ls, enum) == ConnectFrom([ls |-> ls, ok |-> TRUE], 0, enum)

\* the ids the connector pass reads from the map
AllConnectedIds(ls) ==
    {ls[i].annotation : i \in {k \in 1..Len(ls) :
        is_annotation(ls[k]) /\ ls[k].annotation # NoneId}}

----------------------------------------------------------------------------
(* Apply line numbers, To raw *)

DigitChar(d) == <<"0", "1", "2", "3", "4", "5", "6", "7", "8", "9">>[d + 1]

\* usize::to_string
RECURSIVE to_string(_)
to_string(n) ==
    IF n < 10 THEN <<DigitChar(n)>>
    ELSE to_string(n \div 10) \o <<DigitChar(n % 10)>>

\* the largest line_num of the Text lines of a run, 0 if it has none
MaxNum(ls, r) ==
    LET nums == {ls[i].line_num : i \in {k \in r[1]..r[2] : is_text(ls[k])}}
    IN  IF nums = {} THEN 0 ELSE Max(nums)

\* a number field one column wider than max_len
FormatNumWide(num, max_len) ==
    LET digits == to_string(num)
    IN  Spaces(max_len + 1 - Len(digits)) \o digits \o <<" ">>

\* format!("{:>width$} ", line_num, width = max_len)
FormatNum(num, max_len) ==
    LET digits == to_string(num)
    IN  (IF Len(digits) < max_len THEN Spaces(max_len - Len(digits)) ELSE <<>>)
        \o digits \o <<" ">>

\* the gutter marks of Annotation and Gap lines ('·' and '⋮' in the source)
ANNOTATION_MARK == "annotation_mark"
GAP_MARK == "gap_mark"

LinePrefix(l, max_len) ==
    IF is_text(l) THEN Segment(FormatNum(l.line_num, max_len), LineNumberFmt)
    ELSE IF is_annotation(l)
    THEN Segment(Spaces(max_len - 1), LineNumberFmt)
         \o Segment(<<ANNOTATION_MARK, " ">>, LineNumberFmt)
    ELSE Segment(Spaces(max_len - 1), LineNumberFmt)
         \o Segment(<<GAP_MARK, " ">>, LineNumberFmt)

ApplyLineNumbers(ls) ==
    [i \in 1..Len(ls) |->
        LET r == RunOf(ShownRuns(ls), i)
        IN  IF r = <<0, 0>> THEN ls[i]
            ELSE [ls[i] EXCEPT !.prefix =
                     @ \o LinePrefix(ls[i], Len(to_string(MaxNum(ls, r))))]]

\* a flattening that forgets the Gap lines
ToRawKeepsGap(ls) ==
    [i \in 1..Len(ls) |->
        IF is_text(ls[i]) \/ is_annotation(ls[i])
        THEN RawLine(ls[i].prefix \o ls[i].line) ELSE ls[i]]

ToRaw(ls) ==
    [i \in 1..Len(ls) |->
        IF is_shown(ls[i]) THEN RawLine(ls[i].prefix \o ls[i].line) ELSE ls[i]]

----------------------------------------------------------------------------
(* process and parse as functions of the input and of the order in which   *)
(* the connector pass enumerates its map                                   *)

\* the lines at the entry of the connector pass
BeforeConnect(ls) == ExpandBuffers(cleanup(MakeGaps(FormatInline(cleanup(ls)))))

process(ls, enum) ==
    cleanup(ToRaw(ApplyLineNumbers(ConnectLines(BeforeConnect(ls), enum).ls)))

parse(str, anns, enum) == process(Distribute(str, anns), enum)

----------------------------------------------------------------------------
(* The state machine: parse, then the passes of process in their order *)

annotation_formats == [id \in {annotations[j].id : j \in 1..Len(annotations)} |-> ColorFmt(id)]

InitWith(inputs) ==
    /\ \E in \in inputs : txt = in[1] /\ annotations = in[2]
    /\ lines = <<>>
    /\ prev = <<>>
    /\ order = <<>>
    /\ pc = "start"

\* texts of up to MaxLines lines and annotations inside the text: at most
\* one annotation over lines of any shape, two over lines that are not
\* empty, the second of them of one range
Init ==
    InitWith(UNION {InputsOf(t, UpToOne(RangeSets(InnerRanges(t)))) :
                       t \in Texts(LineShapes, MaxLines)}
             \cup
             UNION {InputsOf(t, Two(RangeSets(InnerRanges(t)),
                                    SingleRanges(InnerRanges(t)))) :
                       t \in Texts(FilledShapes, MaxLines)})

\* longer texts, at most one annotation
InitLong ==
    InitWith(UNION {InputsOf(t, UpToOne(RangeSets(InnerRanges(t)))) :
                       t \in LongTexts(MaxLongLines)})

\* texts of ScenarioLines lines, the first three of any shape, and one
\* annotation with a label that lies in the first line
InitTen ==
    InitWith({<<t, <<Annotation(1, {<<ContentStart(t, 0), ContentEnd(t, 0)>>},
                                Segment(<<"m">>, DefaultFmt))>>>> :
                 t \in {JoinLines(ss \o [i \in 1..(ScenarioLines - 3) |-> <<"x">>]) :
                           ss \in [1..3 -> LineShapes]}})

\* one annotation that has a range which ends, or starts and ends, behind
\* the end of the text
InitOuter ==
    InitWith(UNION {InputsOf(t, UpToOne(SingleRanges(OuterRanges(t))) \ {<<>>}) :
                       t \in Texts(LineShapes, MaxLines)})

Pass(from, to, result, ok) ==
    /\ pc = from
    /\ prev' = lines
    /\ lines' = IF ok THEN result ELSE lines
    /\ pc' = IF ok THEN to ELSE "panicked"
    /\ UNCHANGED <<txt, annotations, order>>

\* parse up to the call of process
Parse ==
    /\ pc = "start"
    /\ IF ParseAborts(txt, annotations)
       THEN pc' = "aborted" /\ lines' = <<>>
       ELSE pc' = "parsed" /\ lines' = Distribute(txt, annotations)
    /\ prev' = lines
    /\ UNCHANGED <<txt, annotations, order>>

FirstCleanup == Pass("parsed", "cleaned", cleanup(lines), ~CleanupPanics(lines))

FormatInlineAnnotations == Pass("cleaned", "formatted", FormatInline(lines), TRUE)

\* "Make gaps in files" and the cleanup that follows it
MakeGapsInFiles ==
    Pass("formatted", "gapped", cleanup(MakeGaps(lines)),
         ~CleanupPanics(MakeGaps(lines)))

ExpandAnnotationBuffers == Pass("gapped", "expanded", ExpandBuffers(lines), TRUE)

\* the connector pass; the map is enumerated in an arbitrary order
ConnectAnnotationLines ==
    /\ pc = "expanded"
    /\ \E enum \in Orderings(AllConnectedIds(lines)) :
          /\ order' = enum
          /\ prev' = lines
          /\ lines' = IF ConnectLines(lines, enum).ok
                      THEN ConnectLines(lines, enum).ls ELSE lines
          /\ pc' = IF ConnectLines(lines, enum).ok THEN "connected" ELSE "panicked"
    /\ UNCHANGED <<txt, annotations>>

ApplyLineNumbersPass == Pass("connected", "numbered", ApplyLineNumbers(lines), TRUE)

\* "To raw" and the final cleanup
ToRawPass ==
    Pass("numbered", "done", cleanup(ToRaw(lines)), ~CleanupPanics(ToRaw(lines)))

Next ==
    \/ Parse
    \/ FirstCleanup
    \/ FormatInlineAnnotations
    \/ MakeGapsInFiles
    \/ ExpandAnnotationBuffers
    \/ ConnectAnnotationLines
    \/ ApplyLineNumbersPass
    \/ ToRawPass

Spec == Init /\ [][Next]_vars

SpecLong == InitLong /\ [][Next]_vars

SpecTen == InitTen /\ [][Next]_vars

SpecOuter == InitOuter /\ [][Next]_vars

----------------------------------------------------------------------------
(* Properties *)

\* a flattened line that carries the given gutter mark
HasMark(l, mark) ==
    \E k \in 1..Len(l.line) : l.line[k].ch = mark /\ l.line[k].fmt.line_number

\* a Raw line that was a Gap line
GapDerived(l) == is_raw(l) /\ HasMark(l, GAP_MARK)

\* a Raw line that was an Annotation line
AnnotationDerived(l) == is_raw(l) /\ HasMark(l, ANNOTATION_MARK)

\* no line of positions i-2 .. i+2 of the Text run of position i has a
\* pending annotation buffer
FarFromBuffers(ls, i) ==
    LET r == RunOf(TextRuns(ls), i)
    IN  \A j \in r[1]..r[2] :
            (i - 2 <= j /\ j <= i + 2) => ls[j].annotation_buffers = <<>>

\* the maximal blocks of consecutive Text lines that are far from buffers
FarBlocks(ls) ==
    {<<a, b>> \in (1..Len(ls)) \X (1..Len(ls)) :
        /\ a <= b
        /\ \A i \in a..b : is_text(ls[i]) /\ FarFromBuffers(ls, i)
        /\ (a = 1 \/ ~(is_text(ls[a - 1]) /\ FarFromBuffers(ls, a - 1)))
        /\ (b = Len(ls) \/ ~(is_text(ls[b + 1]) /\ FarFromBuffers(ls, b + 1)))}

(* C2: after process returns, every line left in Source.lines is Raw: no
   Text, Annotation, Gap or Nop line remains. *)
AllRawWhenDone ==
    pc = "done" => \A i \in 1..Len(lines) : lines[i].kind = "Raw"

\* process has returned lines that were Text, Annotation and Gap lines
AllRawWitness ==
    /\ pc = "done"
    /\ \E i \in 1..Len(lines) : GapDerived(lines[i])
    /\ \E i \in 1..Len(lines) : AnnotationDerived(lines[i])
    /\ \E i \in 1..Len(lines) :
          is_raw(lines[i]) /\ ~GapDerived(lines[i]) /\ ~AnnotationDerived(lines[i])

(* C3: after every cleanup, and from then on to the end of the pipeline, no
   two Gap lines are adjacent; a block of consecutive Text lines that are not
   within two positions of a line with a pending buffer leaves exactly one
   Gap line, and no two lines of the final output that were Gap lines are
   adjacent. *)
NoAdjacentGapLines ==
    /\ pc \in {"cleaned", "formatted", "gapped", "expanded", "connected",
               "numbered", "done"} =>
          \A i \in 1..(Len(lines) - 1) : ~(is_gap(lines[i]) /\ is_gap(lines[i + 1]))
    /\ pc = "gapped" =>
          Cardinality({i \in 1..Len(lines) : is_gap(lines[i])})
              = Cardinality(FarBlocks(prev))
    /\ pc = "done" =>
          \A i \in 1..(Len(lines) - 1) :
              ~(GapDerived(lines[i]) /\ GapDerived(lines[i + 1]))

\* a block of two or more lines was collapsed into one Gap line beside
\* Text lines that were kept
GapCollapseWitness ==
    /\ pc = "gapped"
    /\ \E b \in FarBlocks(prev) : b[2] > b[1]
    /\ \E i \in 1..Len(lines) : is_gap(lines[i])
    /\ \E i \in 1..Len(lines) : is_text(lines[i])

(* C9: a Text line is converted to an empty Gap if and only if no line of
   positions i-2 .. i+2 of its Text run, as the run was before the pass, has
   a pending annotation buffer; the lines already converted do not change
   what happens to later lines, and a line with a pending buffer is kept. *)
GapInsertionByWindow ==
    pc = "gapped" =>
        /\ \A i \in 1..Len(prev) :
              is_text(prev[i]) =>
                  /\ is_gap(MakeGaps(prev)[i]) <=> FarFromBuffers(prev, i)
                  /\ ~FarFromBuffers(prev, i) => MakeGaps(prev)[i] = prev[i]
                  /\ FarFromBuffers(prev, i) => MakeGaps(prev)[i] = GapLine
        /\ {lines[i].line_num : i \in {k \in 1..Len(lines) : is_text(lines[k])}}
              = {prev[i].line_num : i \in {k \in 1..Len(prev) :
                    is_text(prev[k]) /\ ~FarFromBuffers(prev, k)}}

\* the pass converted two neighbouring lines and kept a line that has no
\* buffer itself but lies in the window of one that has
GapInsertionWitness ==
    /\ pc = "gapped"
    /\ \E i \in 2..Len(prev) :
          FarFromBuffers(prev, i) /\ FarFromBuffers(prev, i - 1)
    /\ \E i \in 1..Len(prev) :
          ~FarFromBuffers(prev, i) /\ prev[i].annotation_buffers = <<>>

\* what the expansion of the buffers has to give
ExpectedExpansion(ls) ==
    Concat([i \in 1..Len(ls) |->
        <<[ls[i] EXCEPT !.annotation_buffers = <<>>]>>
        \o [k \in 1..Len(ls[i].annotation_buffers) |->
               AnnotationLine(ls[i].annotation_buffers[k].text,
                              ls[i].annotation_buffers[k].id)]])

RECURSIVE SumLen(_)
SumLen(ss) == IF ss = <<>> THEN 0 ELSE Len(Head(ss)) + SumLen(Tail(ss))

(* C10: after the expansion every Text line that had the buffers b1..bk is
   followed by k Annotation lines that carry b1..bk in this order with their
   ids; the original lines keep their order, every annotation_buffers list is
   empty and the line count has grown by the number of buffers. *)
BuffersExpandInOrder ==
    pc = "expanded" =>
        /\ lines = ExpectedExpansion(prev)
        /\ \A i \in 1..Len(lines) : lines[i].annotation_buffers = <<>>
        /\ Len(lines) = Len(prev)
              + SumLen([i \in 1..Len(prev) |-> prev[i].annotation_buffers])

\* two lines had buffers, one of them two buffers
BuffersExpandWitness ==
    /\ pc = "expanded"
    /\ \E i, j \in 1..Len(prev) :
          /\ i # j
          /\ Len(prev[i].annotation_buffers) >= 2
          /\ Len(prev[j].annotation_buffers) >= 1

(* C1: two runs of parse on the same text and annotations give the same
   final lines: the result does not depend on the order in which the
   connector pass enumerates the ids of its hash map. *)
OutputIndependentOfEnumeration ==
    pc = "done" =>
        \A enum \in Orderings(AllConnectedIds(BeforeConnect(Distribute(txt, annotations)))) :
            lines = parse(txt, annotations, enum)

\* the connector glyphs
BarGlyphs == {RANGE_EMPTY, RANGE_START, RANGE_END, RANGE_CONNECTION, RANGE_CONTINUE}

\* the positions of the Annotation lines of an id
OccurrencesOf(ls, id) ==
    {i \in 1..Len(ls) : is_annotation(ls[i]) /\ ls[i].annotation = id}

\* the cells <<line, column>> that hold the given glyph in the style of the id
CellsWith(ls, ch, id) ==
    {ik \in UNION {{<<i, k>> : k \in 1..Len(ls[i].line)} : i \in 1..Len(ls)} :
        ls[ik[1]].line[ik[2]] = Cell(ch, AnnotationFmt(id))}

\* the shape of the connector of every id that spans several lines
ConnectorShape(ls, crossing_allowed) ==
    \A id \in AllConnectedIds(ls) :
        LET a == Min(OccurrencesOf(ls, id))
            b == Max(OccurrencesOf(ls, id))
        IN  a < b =>
              /\ Cardinality(CellsWith(ls, RANGE_START, id)) = 1
              /\ Cardinality(CellsWith(ls, RANGE_END, id)) = 1
              /\ \E c \in 1..Len(ls[a].line) :
                    /\ <<a, c>> \in CellsWith(ls, RANGE_START, id)
                    /\ <<b, c>> \in CellsWith(ls, RANGE_END, id)
                    /\ \A l \in (a + 1)..(b - 1) :
                          /\ c <= Len(ls[l].line)
                          /\ \/ ls[l].line[c] = Cell(RANGE_CONNECTION, AnnotationFmt(id))
                             \/ ls[l].line[c] = Cell(RANGE_CONTINUE, AnnotationFmt(id))
                             \/ crossing_allowed /\ ls[l].line[c].ch = CROSSING

(* C4 as stated: at the end of the connector pass every id that spans the
   lines a..b, b > a, has one start glyph on a, one end glyph on b and on
   every line between them a connection or a continuation glyph, all in one
   column. *)
ConnectorShapeExact == pc = "connected" => ConnectorShape(lines, FALSE)

(* C4 as amended: the same, but a line between a and b may hold, in that
   column, the crossing glyph that the connection of another annotation put
   in the place of the continuation glyph. *)
ConnectorShapeOrCrossing == pc = "connected" => ConnectorShape(lines, TRUE)

\* an id has a connection glyph on a line between its first and its last
\* line, and a bar of an id was crossed
ConnectorShapeWitness ==
    /\ pc = "connected"
    /\ \E id \in AllConnectedIds(lines) : CellsWith(lines, RANGE_CONNECTION, id) # {}
    /\ \E id \in AllConnectedIds(lines) : CellsWith(lines, CROSSING, id) # {}

\* the columns of a line that hold a connector glyph of the id
GlyphColumns(l, id) ==
    {k \in 1..Len(l.line) :
        /\ l.line[k].ch \in BarGlyphs \cup {CROSSING}
        /\ l.line[k].fmt = AnnotationFmt(id)}

(* C5: the connector glyph of an annotation is drawn at least two columns
   before the content of every line of its range: each line of the range
   holds the glyph, and the cell that follows the glyph is blank or missing,
   whatever the indentation of the lines. *)
GlyphTwoColumnsBeforeContent ==
    pc = "connected" =>
        \A id \in AllConnectedIds(lines) :
            \A i \in Min(OccurrencesOf(lines, id))..Max(OccurrencesOf(lines, id)) :
                /\ GlyphColumns(lines[i], id) # {}
                /\ \A k \in GlyphColumns(lines[i], id) :
                      k + 1 <= Len(lines[i].line) =>
                          is_whitespace(lines[i].line[k + 1].ch)

\* a glyph was drawn on an indented line without padding, at the column
\* after the first, and another glyph after padding, in the first column
GlyphColumnWitness ==
    /\ pc = "connected"
    /\ \E id \in AllConnectedIds(lines) : \E i \in 1..Len(lines) :
          is_text(lines[i]) /\ 2 \in GlyphColumns(lines[i], id)
    /\ \E id \in AllConnectedIds(lines) : \E i \in 1..Len(lines) :
          is_text(lines[i]) /\ 1 \in GlyphColumns(lines[i], id)

\* the cells of the gutter of a flattened line, less the blank that ends it
NumberFieldWidth(l) ==
    Cardinality({k \in 1..Len(l.line) : l.line[k].fmt.line_number}) - 1

\* the flattened lines that were Text lines
Numbered(ls) ==
    {i \in 1..Len(ls) : is_raw(ls[i]) /\ ~GapDerived(ls[i]) /\ ~AnnotationDerived(ls[i])}

\* the digits a numbered line shows
ShownDigits(l) ==
    SelectSeq([k \in 1..Len(l.line) |-> l.line[k].ch],
              LAMBDA ch : ch \in {DigitChar(d) : d \in 0..9})

OneGapLine(ls) == Cardinality({i \in 1..Len(ls) : GapDerived(ls[i])}) = 1

(* C6 as stated: in the ten-line scenario the later lines collapse into one
   Gap line and the number field of every numbered line that survives is as
   wide as the number of lines of the text has digits. *)
ScenarioBWidthOfLineCount ==
    pc = "done" =>
        /\ OneGapLine(lines)
        /\ \A i \in Numbered(lines) :
              NumberFieldWidth(lines[i]) = Len(to_string(ScenarioLines))

(* C6 as amended: the later lines collapse into one Gap line, the lines 1 to
   3 survive, and the number field of every numbered line is as wide as the
   largest surviving line number, 3, has digits: one column. *)
ScenarioBWidthOfSurvivors ==
    pc = "done" =>
        /\ OneGapLine(lines)
        /\ [k \in 1..Cardinality(Numbered(lines)) |->
               ShownDigits(lines[CHOOSE i \in Numbered(lines) :
                   Cardinality({j \in Numbered(lines) : j <= i}) = k])]
              = <<to_string(1), to_string(2), to_string(3)>>
        /\ \A i \in Numbered(lines) :
              NumberFieldWidth(lines[i]) = Len(to_string(3))

\* the pipeline has ended with three numbered lines, the line of the label
\* and one Gap line
ScenarioBWitness ==
    /\ pc = "done"
    /\ Len(SplitLines(txt)) = ScenarioLines
    /\ OneGapLine(lines)
    /\ Cardinality(Numbered(lines)) = 3
    /\ \E i \in 1..Len(lines) : AnnotationDerived(lines[i])

\* a text of three lines and one annotation without label that covers
\* exactly the second line
ScenarioA ==
    /\ Len(SplitLines(txt)) = 3
    /\ SplitLines(txt)[2] = <<"x">>
    /\ annotations = <<Annotation(1, {<<ContentStart(txt, 1), ContentEnd(txt, 1)>>}, <<>>)>>

(* C7: in scenario A the output keeps the three numbered lines of the text
   and holds no Gap line. *)
ScenarioAKeepsLines ==
    (pc = "done" /\ ScenarioA) =>
        /\ Cardinality(Numbered(lines)) = 3
        /\ \A i \in 1..Len(lines) : ~GapDerived(lines[i])

\* an annotation has a range that starts behind the end of the text
AnnotationOutsideText ==
    \E j \in 1..Len(annotations) : \E r \in annotations[j].ranges : r[1] > Len(txt)

(* C8: an annotation whose range lies outside the text makes parse fail:
   the range resolves to a line index that is out of bounds of the line
   vector, and parse aborts without a Source. *)
OutsideTextAborts ==
    (pc # "start" /\ AnnotationOutsideText) =>
        /\ pc = "aborted"
        /\ \E j \in 1..Len(annotations) : \E r \in annotations[j].ranges :
              offset_to_linecol(r[1], linestarts(txt)).line >= Len(SplitLines(txt))

====
